---- MODULE Spec2Model ----
(***************************************************************************)
(* Reconciliation core of tpolls-api: the PollSync (RegistrationAttempt),  *)
(* AiGeneratedPoll (Draft), BlockchainPoll (snapshot) and BlockchainVote   *)
(* (VoteAttempt) collections, the HTTP handlers that write them and the    *)
(* registration sweep of BlockchainSyncService.                            *)
(*                                                                         *)
(* Time is counted in minutes (baseRetryDelay 60000 ms = 1).  A handler    *)
(* is split at the awaits where another request can run in between; each   *)
(* action is one such uninterrupted stretch.  A mongoose save() writes the *)
(* paths whose value differs from the value loaded (SaveModified).         *)
(***************************************************************************)
EXTENDS Integers, Sequences, FiniteSets, TLC

VARIABLES now, drafts, syncs, polls, votes, reqs, sweep, cron, runs

vars == <<now, drafts, syncs, polls, votes, reqs, sweep, cron, runs>>

-----------------------------------------------------------------------------
(* Bounds of the model *)

MaxTime == 1
MaxSyncs == 2
MaxVotes == 2
NumHandlers == 2
MaxRuns == 2
MaxStarts == 2
MaxClock == 3
MaxAttemptsTried == 8

(* Values of the model *)

NULL == -1
NONE == "none"
DraftIds == {1, 2}
ChainIds == {7, 8}
TxHashes == {"0xabc"}
Voters == {"V1", "V2"}
Handlers == 1..NumHandlers
RunIds == 1..MaxRuns
Times == 0..MaxTime

(* Program constants, in minutes where they are durations *)

DefaultMaxRegistrationAttempts == 3
PendingRegistrationLimit == 3
BackoffMultiplier == 2
BaseRetryDelay == 1
MaxRetryDelay == 60
MaxErrors == 20
PollLifetime == 10080

SyncStatuses ==
  {"pending", "registering", "registered", "syncing", "synced", "failed", "cancelled"}

DraftStatuses == {"pending", "registered", "failed"}

VoteStatuses == {"pending", "confirmed", "counted", "rewarded", "failed", "invalid"}

LiveVoteStatuses == {"pending", "confirmed", "counted", "rewarded"}

-----------------------------------------------------------------------------
(* PollSync documents *)

RECURSIVE Pow(_, _)
Pow(b, n) == IF n = 0 THEN 1 ELSE b * Pow(b, n - 1)

Min(a, b) == IF a < b THEN a ELSE b

NewPollSync(aiPollId, maxAttempts) ==
  [aiPollId |-> aiPollId,
   blockchainPollId |-> NULL,
   syncStatus |-> "pending",
   registrationAttempts |-> 0,
   maxRegistrationAttempts |-> maxAttempts,
   registrationTxHash |-> NONE,
   registrationTxPayload |-> NONE,
   contractAddress |-> NONE,
   lastAttemptAt |-> NULL,
   nextRetryAt |-> NULL,
   errors |-> 0]

SyncFields == DOMAIN NewPollSync(1, DefaultMaxRegistrationAttempts)

(* canRetry without the attempt limit *)
canRetry_NoLimit(doc, t) ==
  /\ doc.syncStatus = "failed"
  /\ (doc.nextRetryAt = NULL \/ t >= doc.nextRetryAt)

canRetry(doc, t) ==
  /\ doc.registrationAttempts < doc.maxRegistrationAttempts
  /\ doc.syncStatus = "failed"
  /\ (doc.nextRetryAt = NULL \/ t >= doc.nextRetryAt)

(* a delay without the cap of maxRetryDelay *)
currentRetryDelay_NoCap(doc) ==
  BaseRetryDelay * Pow(BackoffMultiplier, doc.registrationAttempts)

currentRetryDelay(doc) ==
  Min(BaseRetryDelay * Pow(BackoffMultiplier, doc.registrationAttempts), MaxRetryDelay)

addError(doc) ==
  [doc EXCEPT !.errors = Min(doc.errors + 1, MaxErrors)]

(* an incrementAttempt that stores the number of attempts left instead of *)
(* the time of the next one                                               *)
incrementAttempt_AttemptsLeft(doc, t) ==
  LET d1 == [doc EXCEPT !.registrationAttempts = doc.registrationAttempts + 1,
                        !.lastAttemptAt = t]
  IN IF d1.registrationAttempts >= d1.maxRegistrationAttempts
       THEN [d1 EXCEPT !.syncStatus = "failed", !.nextRetryAt = NULL]
       ELSE [d1 EXCEPT !.syncStatus = "failed",
                       !.nextRetryAt = d1.maxRegistrationAttempts - d1.registrationAttempts]

incrementAttempt(doc, t) ==
  LET d1 == [doc EXCEPT !.registrationAttempts = doc.registrationAttempts + 1,
                        !.lastAttemptAt = t]
  IN IF d1.registrationAttempts >= d1.maxRegistrationAttempts
       THEN [d1 EXCEPT !.syncStatus = "failed", !.nextRetryAt = NULL]
       ELSE [d1 EXCEPT !.syncStatus = "failed",
                       !.nextRetryAt = t + currentRetryDelay(d1)]

markRegistering(doc, txPayload, contractAddress, t) ==
  [doc EXCEPT !.syncStatus = "registering",
              !.registrationTxPayload = txPayload,
              !.contractAddress = contractAddress,
              !.lastAttemptAt = t]

(* markRegistered that forgets the transaction hash *)
markRegistered_NoTxHash(doc, blockchainPollId, txHash) ==
  [doc EXCEPT !.syncStatus = "registered",
              !.blockchainPollId = blockchainPollId,
              !.nextRetryAt = NULL]

markRegistered(doc, blockchainPollId, txHash) ==
  [doc EXCEPT !.syncStatus = "registered",
              !.blockchainPollId = blockchainPollId,
              !.registrationTxHash = txHash,
              !.nextRetryAt = NULL]

resetForRetry(doc, t) ==
  IF canRetry(doc, t)
    THEN [doc EXCEPT !.syncStatus = "pending", !.nextRetryAt = NULL]
    ELSE doc

(* document.save(): only the paths changed since the load are written *)
SaveModified(stored, loaded, mem) ==
  [f \in SyncFields |-> IF mem[f] # loaded[f] THEN mem[f] ELSE stored[f]]

SyncIds == 1..Len(syncs)

(* findOne({aiPollId}): the first document in insertion order, 0 when none *)
findByAiPoll(aiPollId) ==
  LET S == {i \in SyncIds : syncs[i].aiPollId = aiPollId}
  IN IF S = {} THEN 0 ELSE CHOOSE i \in S : \A j \in S : i <= j

inPendingRegistration(doc, t) ==
  /\ doc.syncStatus \in {"pending", "failed"}
  /\ (doc.nextRetryAt = NULL \/ doc.nextRetryAt <= t)
  /\ doc.registrationAttempts < PendingRegistrationLimit

RECURSIVE SelectIds(_, _)
SelectIds(i, t) ==
  IF i > Len(syncs) THEN << >>
  ELSE IF inPendingRegistration(syncs[i], t)
         THEN <<i>> \o SelectIds(i + 1, t)
         ELSE SelectIds(i + 1, t)

(* find(...).sort({createdAt: 1}): documents are stored in creation order *)
findPendingRegistration(t) == SelectIds(1, t)

-----------------------------------------------------------------------------
(* AiGeneratedPoll documents *)

NoDraft == [exists |-> FALSE, status |-> "pending", blockchainPollId |-> NULL]

NewDraft(status, blockchainPollId) ==
  [exists |-> TRUE, status |-> status, blockchainPollId |-> blockchainPollId]

NoPoll == [exists |-> FALSE, isActive |-> FALSE, endTime |-> NULL, lastSyncedAt |-> NULL]

-----------------------------------------------------------------------------
(* Request handlers in flight *)

IdleReq ==
  [kind |-> "idle", pc |-> "idle", draft |-> 0, syncId |-> 0, txHash |-> NONE,
   chainId |-> NULL, loaded |-> NewPollSync(0, DefaultMaxRegistrationAttempts),
   poll |-> NULL, voter |-> NONE, option |-> NULL, result |-> NONE]

Free(h) ==
  /\ reqs[h].pc \in {"idle", "done"}
  /\ \A g \in Handlers : g < h => reqs[g].pc \notin {"idle", "done"}

(* the response is sent and the request's locals are gone *)
Done(r, result) == [IdleReq EXCEPT !.kind = r.kind, !.pc = "done", !.result = result]

-----------------------------------------------------------------------------
(* Initial contents of the stores.  A seeded PollSync is a document the    *)
(* schema accepts, with attempts left: pending or cancelled and never      *)
(* tried, or failed after some attempts, with or without a retry time.     *)

SeedMaxAttempts == {2, 3}

SeedSyncs ==
  {s \in [aiPollId : {1},
          blockchainPollId : {NULL},
          syncStatus : {"pending", "failed", "cancelled"},
          registrationAttempts : 0..2,
          maxRegistrationAttempts : SeedMaxAttempts,
          registrationTxHash : {NONE},
          registrationTxPayload : {NONE},
          contractAddress : {NONE},
          lastAttemptAt : {NULL},
          nextRetryAt : {NULL, 1},
          errors : {0}] :
     /\ s.registrationAttempts < s.maxRegistrationAttempts
     /\ s.syncStatus # "failed"
          => (s.registrationAttempts = 0 /\ s.nextRetryAt = NULL)}

SeedDrafts ==
  {d \in [DraftIds -> {NoDraft, NewDraft("pending", NULL), NewDraft("failed", NULL)}] :
     /\ d[1].exists
     /\ ~d[2].exists}

IdleSweep == [isRunning |-> FALSE, queue |-> << >>]

(* the cron tasks: started counts the start() calls, live are the tasks    *)
(* that fire, held is this.syncTasks                                       *)
IdleCron == [started |-> 0, live |-> {}, held |-> {}]

(* an execution of runFullSync or of one of its sweeps *)
IdleRun ==
  [kind |-> "none", phase |-> "idle", by |-> "none", stats |-> FALSE, at |-> 0,
   queue |-> << >>]

RegInit ==
  /\ now = 0
  /\ drafts \in SeedDrafts
  /\ syncs \in {<< >>} \cup {<<s>> : s \in SeedSyncs}
  /\ polls = [c \in ChainIds |-> NoPoll]
  /\ votes = << >>
  /\ reqs = [h \in Handlers |-> IdleReq]
  /\ sweep = IdleSweep
  /\ cron = IdleCron
  /\ runs = [r \in RunIds |-> IdleRun]

-----------------------------------------------------------------------------
(* BlockchainController.registerPollOnBlockchain *)

RegisterBegin(h, d) ==
  /\ Free(h)
  /\ LET e == findByAiPoll(d)
         r == [IdleReq EXCEPT !.kind = "register", !.draft = d]
     IN reqs' = [reqs EXCEPT ![h] =
          IF ~drafts[d].exists THEN Done(r, "NotFound")
          ELSE IF e # 0 /\ syncs[e].syncStatus # "failed"
            THEN Done(r, "AlreadyInProgress")
          ELSE [r EXCEPT !.pc = "payload", !.syncId = e,
                         !.loaded = IF e # 0 THEN syncs[e] ELSE r.loaded]]
  /\ UNCHANGED <<now, drafts, syncs, polls, votes, sweep, cron, runs>>

RegisterFinish(h) ==
  /\ reqs[h].kind = "register"
  /\ reqs[h].pc = "payload"
  /\ LET r == reqs[h]
         pollSync == IF r.syncId # 0
                       THEN resetForRetry(r.loaded, now)
                       ELSE NewPollSync(r.draft, DefaultMaxRegistrationAttempts)
         mem == markRegistering(pollSync, "payload", "contract", now)
     IN \E ok \in BOOLEAN :
          IF ~ok
            THEN /\ reqs' = [reqs EXCEPT ![h] = Done(r, "Error")]
                 /\ UNCHANGED syncs
            ELSE /\ r.syncId = 0 => Len(syncs) < MaxSyncs
                 /\ syncs' = IF r.syncId = 0
                               THEN Append(syncs, mem)
                               ELSE [syncs EXCEPT ![r.syncId] =
                                       SaveModified(syncs[r.syncId], r.loaded, mem)]
                 /\ reqs' = [reqs EXCEPT ![h] = Done(r, "ok")]
  /\ UNCHANGED <<now, drafts, polls, votes, sweep, cron, runs>>

-----------------------------------------------------------------------------
(* BlockchainController.confirmPollRegistration *)

(* an update addressed by the sync id instead of pollSync.aiPollId *)
OwningDraft_BySyncId(syncId) == syncId

(* pollSync.aiPollId, the id findByIdAndUpdate is given *)
OwningDraft(syncId) == syncs[syncId].aiPollId

ConfirmBegin(h, syncId, txHash, chainId) ==
  /\ Free(h)
  /\ LET r == [IdleReq EXCEPT !.kind = "confirm", !.syncId = syncId,
                              !.txHash = txHash, !.chainId = chainId]
     IN IF syncId = 0 \/ txHash = NONE
          THEN /\ reqs' = [reqs EXCEPT ![h] = Done(r, "BadRequest")]
               /\ UNCHANGED syncs
        ELSE IF syncId \notin SyncIds
          THEN /\ reqs' = [reqs EXCEPT ![h] = Done(r, "NotFound")]
               /\ UNCHANGED syncs
        ELSE \E saved \in BOOLEAN :
               IF saved
                 THEN /\ syncs' = [syncs EXCEPT ![syncId] =
                                     markRegistered(syncs[syncId], chainId, txHash)]
                      /\ reqs' = [reqs EXCEPT ![h] =
                           [r EXCEPT !.pc = "draftUpdate",
                                     !.draft = OwningDraft(syncId)]]
                 ELSE /\ reqs' = [reqs EXCEPT ![h] = Done(r, "Error")]
                      /\ UNCHANGED syncs
  /\ UNCHANGED <<now, drafts, polls, votes, sweep, cron, runs>>

(* findByIdAndUpdate(aiPollId, {blockchainPollId, status}): a missing      *)
(* blockchainPollId is either written as null or dropped from the update,  *)
(* depending on the mongoose version                                      *)
ConfirmFinish(h) ==
  /\ reqs[h].kind = "confirm"
  /\ reqs[h].pc = "draftUpdate"
  /\ LET r == reqs[h]
     IN \E updated \in BOOLEAN :
          IF ~updated
            THEN /\ reqs' = [reqs EXCEPT ![h] = Done(r, "Error")]
                 /\ UNCHANGED drafts
            ELSE /\ reqs' = [reqs EXCEPT ![h] = Done(r, "ok")]
                 /\ IF drafts[r.draft].exists
                      THEN \E v \in (IF r.chainId = NULL
                                       THEN {NULL, drafts[r.draft].blockchainPollId}
                                       ELSE {r.chainId}) :
                             drafts' = [drafts EXCEPT ![r.draft] =
                                          NewDraft("registered", v)]
                      ELSE UNCHANGED drafts
  /\ UNCHANGED <<now, syncs, polls, votes, sweep, cron, runs>>

-----------------------------------------------------------------------------
(* BlockchainSyncService.runFullSync, processPendingRegistrations.  The    *)
(* phases over blockchain_polls and blockchain_votes write neither         *)
(* poll_syncs nor ai-generated-polls.                                      *)

RECURSIVE LoadDocs(_)
LoadDocs(ids) ==
  IF ids = << >> THEN << >>
  ELSE <<[id |-> Head(ids), doc |-> syncs[Head(ids)],
          aiPoll |-> drafts[syncs[Head(ids)].aiPollId].exists]>>
       \o LoadDocs(Tail(ids))

SweepStart ==
  /\ ~sweep.isRunning
  /\ sweep' = [isRunning |-> TRUE, queue |-> LoadDocs(findPendingRegistration(now))]
  /\ UNCHANGED <<now, drafts, syncs, polls, votes, reqs, cron, runs>>

(* one iteration of the for loop; a save that throws is retried once in    *)
(* the catch block, and a second throw leaves the loop                     *)
SweepStep ==
  /\ sweep.isRunning
  /\ sweep.queue # << >>
  /\ LET item == Head(sweep.queue)
         pollSync == item.doc
         mem == IF item.aiPoll THEN incrementAttempt(pollSync, now)
                               ELSE addError(pollSync)
     IN IF ~canRetry(pollSync, now)
          THEN /\ sweep' = [sweep EXCEPT !.queue = Tail(sweep.queue)]
               /\ UNCHANGED syncs
          ELSE \E outcome \in {"saved", "savedInCatch", "thrown"} :
                 /\ syncs' =
                      IF outcome = "saved"
                        THEN [syncs EXCEPT ![item.id] =
                                SaveModified(syncs[item.id], pollSync, mem)]
                      ELSE IF outcome = "savedInCatch"
                        THEN [syncs EXCEPT ![item.id] =
                                SaveModified(syncs[item.id], pollSync, addError(mem))]
                      ELSE syncs
                 /\ sweep' = [sweep EXCEPT !.queue =
                                IF outcome = "thrown" THEN << >> ELSE Tail(sweep.queue)]
  /\ UNCHANGED <<now, drafts, polls, votes, reqs, cron, runs>>

SweepEnd ==
  /\ sweep.isRunning
  /\ sweep.queue = << >>
  /\ sweep' = IdleSweep
  /\ UNCHANGED <<now, drafts, syncs, polls, votes, reqs, cron, runs>>

-----------------------------------------------------------------------------
(* storePollMetadata of the two controllers *)

EndTimes == {1}

FreshDraftId == CHOOSE d \in DraftIds : ~drafts[d].exists /\ \A e \in DraftIds : ~drafts[e].exists => d <= e

NewPoll(endTime) ==
  [exists |-> TRUE, isActive |-> TRUE, endTime |-> endTime, lastSyncedAt |-> now]

(* SimpleBlockchainController: aiRef is aiData._id, 0 when no aiData is sent *)
SimpleStorePollMetadata(chainId, aiRef, endTime, aiSaved) ==
  /\ ~polls[chainId].exists
  /\ polls' = [polls EXCEPT ![chainId] =
                 NewPoll(IF endTime = NULL THEN now + PollLifetime ELSE endTime)]
  /\ drafts' =
       IF aiRef = 0 \/ ~aiSaved THEN drafts
       ELSE IF drafts[aiRef].exists
         THEN [drafts EXCEPT ![aiRef] = NewDraft("registered", chainId)]
       ELSE IF \E d \in DraftIds : ~drafts[d].exists
         THEN [drafts EXCEPT ![FreshDraftId] = NewDraft("registered", chainId)]
       ELSE drafts
  /\ UNCHANGED <<now, syncs, votes, reqs, sweep, cron, runs>>

DefaultDuration == 1440

(* BlockchainController (simplified flow): aiData always makes a new record *)
StorePollMetadata(chainId, hasAiData, aiSaved) ==
  /\ ~polls[chainId].exists
  /\ polls' = [polls EXCEPT ![chainId] = NewPoll(now + DefaultDuration)]
  /\ drafts' =
       IF hasAiData /\ aiSaved /\ (\E d \in DraftIds : ~drafts[d].exists)
         THEN [drafts EXCEPT ![FreshDraftId] = NewDraft("registered", chainId)]
         ELSE drafts
  /\ UNCHANGED <<now, syncs, votes, reqs, sweep, cron, runs>>

-----------------------------------------------------------------------------

(* Request bodies of confirm-registration.  The bodies that are rejected    *)
(* before any document is read are drawn once each.                        *)
ConfirmInputs ==
  {in \in (0..MaxSyncs) \X (TxHashes \cup {NONE}) \X (ChainIds \cup {NULL}) :
     (in[1] = 0 \/ in[2] = NONE) => (in[1] = 0 /\ in[2] = NONE /\ in[3] = NULL)}

Tick ==
  /\ now < MaxTime
  /\ now' = now + 1
  /\ UNCHANGED <<drafts, syncs, polls, votes, reqs, sweep, cron, runs>>

RegNext ==
  \/ \E h \in Handlers, d \in DraftIds : RegisterBegin(h, d)
  \/ \E h \in Handlers : RegisterFinish(h)
  \/ \E h \in Handlers, in \in ConfirmInputs : ConfirmBegin(h, in[1], in[2], in[3])
  \/ \E h \in Handlers : ConfirmFinish(h)
  \/ SweepStart
  \/ SweepStep
  \/ SweepEnd
  \/ Tick

RegSpec == RegInit /\ [][RegNext]_vars

(* The registration flow together with the two storePollMetadata handlers, *)
(* one request at a time.                                                  *)

DraftInit ==
  /\ RegInit
  /\ \A i \in SyncIds : syncs[i].registrationAttempts = 0 /\ syncs[i].nextRetryAt = NULL

DraftNext ==
  \/ \E d \in DraftIds : RegisterBegin(1, d)
  \/ RegisterFinish(1)
  \/ \E in \in ConfirmInputs : ConfirmBegin(1, in[1], in[2], in[3])
  \/ ConfirmFinish(1)
  \/ \E c \in ChainIds, a \in {0} \cup DraftIds, e \in EndTimes \cup {NULL},
        ok \in BOOLEAN : SimpleStorePollMetadata(c, a, e, ok)
  \/ \E c \in ChainIds, ai \in BOOLEAN, ok \in BOOLEAN : StorePollMetadata(c, ai, ok)

DraftSpec == DraftInit /\ [][DraftNext]_vars

-----------------------------------------------------------------------------
(* BlockchainVote documents *)

Options == {0, 2}
ChainOptionCount == 2
DefaultRequiredConfirmations == 3
MaxSyncErrors == 5

NewVote(poll, voter, option, t) ==
  [blockchainPollId |-> poll,
   voterAddress |-> voter,
   selectedOptionId |-> option,
   status |-> "pending",
   txHash |-> NONE,
   confirmations |-> 0,
   requiredConfirmations |-> DefaultRequiredConfirmations,
   confirmedAt |-> NULL,
   syncErrors |-> 0,
   createdAt |-> t]

VoteIdx == 1..Len(votes)

hasUserVoted(voterAddress, blockchainPollId) ==
  \E i \in VoteIdx :
    /\ votes[i].voterAddress = voterAddress
    /\ votes[i].blockchainPollId = blockchainPollId
    /\ votes[i].status \in LiveVoteStatuses

(* a collection without the unique index *)
UniqueIndexAllows_NoIndex(doc) == TRUE

(* the unique index {blockchainPollId: 1, voterAddress: 1} *)
UniqueIndexAllows(doc) ==
  \A i \in VoteIdx :
    ~(votes[i].blockchainPollId = doc.blockchainPollId
      /\ votes[i].voterAddress = doc.voterAddress)

(* insert of a new document: E11000 when the index has the key *)
InsertVote(r, h) ==
  LET doc == NewVote(r.poll, r.voter, r.option, now)
  IN IF UniqueIndexAllows(doc)
       THEN /\ Len(votes) < MaxVotes
            /\ votes' = Append(votes, doc)
            /\ reqs' = [reqs EXCEPT ![h] = Done(r, "ok")]
       ELSE /\ reqs' = [reqs EXCEPT ![h] = Done(r, "DuplicateKeyError")]
            /\ UNCHANGED votes

markFailed(doc) == [doc EXCEPT !.status = "failed"]

addValidationError(doc) == [doc EXCEPT !.status = "invalid"]

(* syncErrors.push(...), keeping the last five: the length of the list *)
addSyncError(doc) ==
  [doc EXCEPT !.syncErrors = IF doc.syncErrors + 1 > MaxSyncErrors
                               THEN MaxSyncErrors ELSE doc.syncErrors + 1]

-----------------------------------------------------------------------------
(* BlockchainController.createVoteTransaction *)

VoteBegin(h, poll, option, voter) ==
  /\ Free(h)
  /\ LET r == [IdleReq EXCEPT !.kind = "vote", !.poll = poll,
                              !.option = option, !.voter = voter]
     IN reqs' = [reqs EXCEPT ![h] =
          IF poll = NULL \/ option = NULL \/ voter = NONE THEN Done(r, "BadRequest")
          ELSE IF hasUserVoted(voter, poll) THEN Done(r, "DuplicateVote")
          ELSE [r EXCEPT !.pc = "intent"]]
  /\ UNCHANGED <<now, drafts, syncs, polls, votes, sweep, cron, runs>>

VoteFinish(h) ==
  /\ reqs[h].kind = "vote"
  /\ reqs[h].pc = "intent"
  /\ \E built \in BOOLEAN :
       IF built
         THEN InsertVote(reqs[h], h)
         ELSE /\ reqs' = [reqs EXCEPT ![h] = Done(reqs[h], "Error")]
              /\ UNCHANGED votes
  /\ UNCHANGED <<now, drafts, syncs, polls, sweep, cron, runs>>

(* SimpleBlockchainController.createVoteTransaction: the poll and the      *)
(* earlier vote are read from the chain, the store is only written.        *)
(* chain is what the chain calls answer: the first of "notFound",          *)
(* "notActive", "hasVoted", "buildFails" that applies, else "ok".          *)
ChainAnswers == {"notFound", "notActive", "hasVoted", "buildFails", "ok"}

SimpleVote(h, poll, option, voter, chain) ==
  /\ Free(h)
  /\ LET r == [IdleReq EXCEPT !.kind = "simpleVote", !.poll = poll,
                              !.option = option, !.voter = voter]
     IN IF poll = NULL \/ option = NULL \/ voter = NONE
          THEN reqs' = [reqs EXCEPT ![h] = Done(r, "BadRequest")] /\ UNCHANGED votes
        ELSE IF chain = "notFound"
          THEN reqs' = [reqs EXCEPT ![h] = Done(r, "NotFound")] /\ UNCHANGED votes
        ELSE IF chain = "notActive"
          THEN reqs' = [reqs EXCEPT ![h] = Done(r, "NotActive")] /\ UNCHANGED votes
        ELSE IF option < 0 \/ option >= ChainOptionCount
          THEN reqs' = [reqs EXCEPT ![h] = Done(r, "InvalidOption")] /\ UNCHANGED votes
        ELSE IF chain = "hasVoted"
          THEN reqs' = [reqs EXCEPT ![h] = Done(r, "DuplicateVote")] /\ UNCHANGED votes
        ELSE IF chain = "buildFails"
          THEN reqs' = [reqs EXCEPT ![h] = Done(r, "Error")] /\ UNCHANGED votes
        ELSE InsertVote(r, h)
  /\ UNCHANGED <<now, drafts, syncs, polls, sweep, cron, runs>>

(* vote.markFailed(error); vote.save() *)
MarkFailed(i) ==
  /\ i \in VoteIdx
  /\ votes' = [votes EXCEPT ![i] = markFailed(votes[i])]
  /\ UNCHANGED <<now, drafts, syncs, polls, reqs, sweep, cron, runs>>

(* vote.addValidationError(error); vote.save() *)
AddValidationError(i) ==
  /\ i \in VoteIdx
  /\ votes' = [votes EXCEPT ![i] = addValidationError(votes[i])]
  /\ UNCHANGED <<now, drafts, syncs, polls, reqs, sweep, cron, runs>>

(* Request bodies of create-transaction; a body without pollId is drawn once *)
VoteInputs ==
  {in \in (ChainIds \cup {NULL}) \X Options \X Voters :
     in[1] = NULL => (in[2] = 0 /\ in[3] = "V1")}

(* the same with the chain's answer; a request the chain turns down is    *)
(* drawn once for each answer                                              *)
SimpleVoteInputs ==
  {in \in (ChainIds \cup {NULL}) \X Options \X Voters \X ChainAnswers :
     /\ in[1] = NULL => (in[2] = 0 /\ in[3] = "V1" /\ in[4] = "ok")
     /\ in[4] \in {"notFound", "notActive"} => (in[1] = 7 /\ in[2] = 0 /\ in[3] = "V1")}

VoteInit ==
  /\ now = 0
  /\ drafts = [d \in DraftIds |-> NoDraft]
  /\ syncs = << >>
  /\ polls = [c \in ChainIds |-> NoPoll]
  /\ votes = << >>
  /\ reqs = [h \in Handlers |-> IdleReq]
  /\ sweep = IdleSweep
  /\ cron = IdleCron
  /\ runs = [r \in RunIds |-> IdleRun]

VoteNext ==
  \/ \E h \in Handlers, in \in VoteInputs : VoteBegin(h, in[1], in[2], in[3])
  \/ \E h \in Handlers : VoteFinish(h)
  \/ \E h \in Handlers, in \in SimpleVoteInputs :
        SimpleVote(h, in[1], in[2], in[3], in[4])
  \/ \E i \in 1..MaxVotes : MarkFailed(i)
  \/ \E i \in 1..MaxVotes : AddValidationError(i)

VoteSpec == VoteInit /\ [][VoteNext]_vars

-----------------------------------------------------------------------------
(* BlockchainVote methods *)

PendingConfirmationLimit == 3
VoteConfirmAge == 2
MockBlockHeight == 12345
MockCurrentHeight == 12348

Max(a, b) == IF a > b THEN a ELSE b

isConfirmed(doc) ==
  doc.confirmations >= doc.requiredConfirmations /\ doc.status = "confirmed"

(* a height of 0 (or a missing one) is falsy and leaves the count alone *)
updateConfirmations(doc, blockHeight, currentBlockHeight, t) ==
  IF blockHeight # 0 /\ currentBlockHeight # 0
    THEN LET d1 == [doc EXCEPT !.confirmations =
                                 Max(0, currentBlockHeight - blockHeight + 1)]
         IN IF isConfirmed(d1) /\ d1.status = "pending"
              THEN [d1 EXCEPT !.status = "confirmed", !.confirmedAt = t]
              ELSE d1
    ELSE doc

markCounted(doc) ==
  IF doc.status = "confirmed" THEN [doc EXCEPT !.status = "counted"] ELSE doc

markRewarded(doc) == [doc EXCEPT !.status = "rewarded"]

VoteFields == DOMAIN NewVote(NULL, NONE, NULL, 0)

(* vote.save() of a loaded document *)
SaveVote(stored, loaded, mem) ==
  [f \in VoteFields |-> IF mem[f] # loaded[f] THEN mem[f] ELSE stored[f]]

(* a test that takes every vote to have a transaction hash *)
hasTxHash_Always(doc) == TRUE

(* txHash: { $exists: true } in the query, vote.txHash in the loop *)
hasTxHash(doc) == doc.txHash # NONE

inPendingConfirmation(doc) ==
  /\ doc.status = "pending"
  /\ hasTxHash(doc)
  /\ doc.confirmations < PendingConfirmationLimit

RECURSIVE SelectVotes(_)
SelectVotes(i) ==
  IF i > Len(votes) THEN << >>
  ELSE IF inPendingConfirmation(votes[i])
         THEN <<[id |-> i, doc |-> votes[i]]>> \o SelectVotes(i + 1)
         ELSE SelectVotes(i + 1)

(* find(...).sort({createdAt: 1}) with the documents it returns *)
findPendingConfirmation == SelectVotes(1)

(* the heights the tests and the sweep pass: <<blockHeight, currentBlockHeight>> *)
HeightPairs == {<<1000, 1003>>, <<1000, 1001>>, <<1003, 1000>>, <<0, 1003>>}

(* vote.updateConfirmations(blockHeight, currentBlockHeight); vote.save() *)
UpdateConfirmations(i, hs) ==
  /\ i \in VoteIdx
  /\ votes' = [votes EXCEPT ![i] = updateConfirmations(votes[i], hs[1], hs[2], now)]
  /\ UNCHANGED <<now, drafts, syncs, polls, reqs, sweep, cron, runs>>

(* vote.markCounted(); vote.save() *)
MarkCounted(i) ==
  /\ i \in VoteIdx
  /\ votes' = [votes EXCEPT ![i] = markCounted(votes[i])]
  /\ UNCHANGED <<now, drafts, syncs, polls, reqs, sweep, cron, runs>>

(* vote.markRewarded(rewardAmount, rewardTxHash); vote.save() *)
MarkRewarded(i) ==
  /\ i \in VoteIdx
  /\ votes' = [votes EXCEPT ![i] = markRewarded(votes[i])]
  /\ UNCHANGED <<now, drafts, syncs, polls, reqs, sweep, cron, runs>>

(* BlockchainController.confirmVote: voteId 0 stands for a missing voteId *)
ConfirmVote(h, voteId, txHash) ==
  /\ Free(h)
  /\ LET r == [IdleReq EXCEPT !.kind = "confirmVote", !.txHash = txHash]
     IN IF voteId = 0 \/ txHash = NONE
          THEN reqs' = [reqs EXCEPT ![h] = Done(r, "BadRequest")] /\ UNCHANGED votes
        ELSE IF voteId \notin VoteIdx
          THEN reqs' = [reqs EXCEPT ![h] = Done(r, "NotFound")] /\ UNCHANGED votes
        ELSE \E saved \in BOOLEAN :
               IF saved
                 THEN /\ votes' = [votes EXCEPT ![voteId].txHash = txHash]
                      /\ reqs' = [reqs EXCEPT ![h] = Done(r, "ok")]
                 ELSE /\ reqs' = [reqs EXCEPT ![h] = Done(r, "Error")]
                      /\ UNCHANGED votes
  /\ UNCHANGED <<now, drafts, syncs, polls, sweep, cron, runs>>

(* SimpleBlockchainController.confirmVote assigns status 'submitted', which *)
(* the schema's enum rejects: save() throws and nothing is written          *)
SimpleConfirmVote(h, voteId, txHash) ==
  /\ Free(h)
  /\ LET r == [IdleReq EXCEPT !.kind = "simpleConfirmVote", !.txHash = txHash]
     IN reqs' = [reqs EXCEPT ![h] =
          IF voteId = 0 \/ txHash = NONE THEN Done(r, "BadRequest")
          ELSE IF voteId \notin VoteIdx THEN Done(r, "NotFound")
          ELSE IF "submitted" \in VoteStatuses THEN Done(r, "ok")
          ELSE Done(r, "ValidationError")]
  /\ votes' = IF voteId \in VoteIdx /\ txHash # NONE /\ "submitted" \in VoteStatuses
                THEN [votes EXCEPT ![voteId].txHash = txHash,
                                   ![voteId].status = "submitted"]
                ELSE votes
  /\ UNCHANGED <<now, drafts, syncs, polls, sweep, cron, runs>>

ClockTick ==
  /\ now < MaxClock
  /\ now' = now + 1
  /\ UNCHANGED <<drafts, syncs, polls, votes, reqs, sweep, cron, runs>>

-----------------------------------------------------------------------------
(* BlockchainSyncService: start, stop, the two cron tasks, runFullSync and  *)
(* its four sweeps.  A run is one execution; its queue holds the documents *)
(* the current sweep loaded and has not yet handled.                       *)

NewTasks(g) == {[gen |-> g, kind |-> "sync"], [gen |-> g, kind |-> "votes"]}

Tasks == UNION {NewTasks(g) : g \in 1..MaxStarts}

(* start(): two new tasks replace this.syncTasks and are started *)
Start ==
  /\ cron.started < MaxStarts
  /\ cron' = [started |-> cron.started + 1,
              live |-> cron.live \cup NewTasks(cron.started + 1),
              held |-> NewTasks(cron.started + 1)]
  /\ UNCHANGED <<now, drafts, syncs, polls, votes, reqs, sweep, runs>>

(* the service after the bootstrap called start() once *)
StartedCron == [started |-> 1, live |-> NewTasks(1), held |-> NewTasks(1)]

(* stop(): the tasks of this.syncTasks are stopped and the list is emptied *)
Stop ==
  /\ cron' = [cron EXCEPT !.live = cron.live \ cron.held, !.held = {}]
  /\ UNCHANGED <<now, drafts, syncs, polls, votes, reqs, sweep, runs>>

FreeRun(r) ==
  /\ runs[r].kind = "none"
  /\ \A q \in RunIds : q < r => runs[q].kind # "none"

(* a runFullSync that does not look at isRunning *)
MayRunFullSync_NoGuard == TRUE

(* runFullSync: if (this.isRunning) return *)
MayRunFullSync == ~sweep.isRunning

(* runFullSync up to the documents of processPendingRegistrations *)
BeginFullSync(r, by) ==
  /\ FreeRun(r)
  /\ MayRunFullSync
  /\ sweep' = [sweep EXCEPT !.isRunning = TRUE]
  /\ runs' = [runs EXCEPT ![r] =
                [kind |-> "full", phase |-> "registrations", by |-> by,
                 stats |-> TRUE, at |-> now,
                 queue |-> LoadDocs(findPendingRegistration(now))]]

(* syncVoteConfirmations up to the documents of findPendingConfirmation;   *)
(* stats tells whether the caller passed a stats object                    *)
BeginVoteSweep(r, by, stats) ==
  /\ FreeRun(r)
  /\ runs' = [runs EXCEPT ![r] =
                [kind |-> "votes", phase |-> "votes", by |-> by,
                 stats |-> stats, at |-> now, queue |-> findPendingConfirmation]]
  /\ UNCHANGED sweep

(* a cron task fires: both callbacks do nothing while isRunning is set *)
TimerFires(task, r) ==
  /\ task \in cron.live
  /\ ~sweep.isRunning
  /\ IF task.kind = "sync"
       THEN BeginFullSync(r, "timer")
       ELSE BeginVoteSweep(r, "timer", FALSE)
  /\ UNCHANGED <<now, drafts, syncs, polls, votes, reqs, cron>>

(* a direct call of runFullSync() *)
RunFullSync(r) ==
  /\ BeginFullSync(r, "call")
  /\ UNCHANGED <<now, drafts, syncs, polls, votes, reqs, cron>>

SaveOutcomes == {"saved", "savedInCatch", "thrown"}

(* processPendingRegistrations: one iteration of the for loop *)
RegistrationsStep(r) ==
  /\ runs[r].phase = "registrations"
  /\ runs[r].queue # << >>
  /\ LET item == Head(runs[r].queue)
         pollSync == item.doc
         mem == IF item.aiPoll THEN incrementAttempt(pollSync, now)
                               ELSE addError(pollSync)
     IN IF ~canRetry(pollSync, now)
          THEN /\ runs' = [runs EXCEPT ![r].queue = Tail(runs[r].queue)]
               /\ UNCHANGED syncs
          ELSE \E outcome \in SaveOutcomes :
                 /\ syncs' =
                      IF outcome = "saved"
                        THEN [syncs EXCEPT ![item.id] =
                                SaveModified(syncs[item.id], pollSync, mem)]
                      ELSE IF outcome = "savedInCatch"
                        THEN [syncs EXCEPT ![item.id] =
                                SaveModified(syncs[item.id], pollSync, addError(mem))]
                      ELSE syncs
                 /\ runs' = [runs EXCEPT ![r].queue =
                               IF outcome = "thrown" THEN << >> ELSE Tail(runs[r].queue)]
  /\ UNCHANGED <<now, drafts, polls, votes, reqs, sweep, cron>>

ChainIdSeq == <<7, 8>>

PollFields == DOMAIN NoPoll

(* poll.save() of a loaded document *)
SavePoll(stored, loaded, mem) ==
  [f \in PollFields |-> IF mem[f] # loaded[f] THEN mem[f] ELSE stored[f]]

(* syncBlockchainPolls, then the documents of findPendingConfirmation.      *)
(* synced are the polls tonService.getActivePolls returned (all active on  *)
(* the chain) whose save succeeded; endTime is the chain's end time.       *)
SyncBlockchainPolls(r, synced, endTime) ==
  /\ runs[r].phase = "registrations"
  /\ runs[r].queue = << >>
  /\ polls' = [c \in ChainIds |->
                 IF c \notin synced THEN polls[c]
                 ELSE IF polls[c].exists
                   THEN [polls[c] EXCEPT !.isActive = TRUE, !.lastSyncedAt = now]
                 ELSE NewPoll(endTime)]
  /\ runs' = [runs EXCEPT ![r].phase = "votes", ![r].queue = findPendingConfirmation]
  /\ UNCHANGED <<now, drafts, syncs, votes, reqs, sweep, cron>>

(* syncVoteConfirmations: one iteration of the for loop.  outcome tells    *)
(* which saves succeed: "saved" the one in the try block, "savedInCatch"   *)
(* only the one in the catch block, "thrown" neither.  Without a stats     *)
(* object stats.votesProcessed++ throws after the save in the try block,   *)
(* so the catch block runs on a saved vote too (catchSaved tells whether   *)
(* its save succeeds), and stats.errors++ throws again in the catch block: *)
(* the loop is left.                                                       *)
VotesStep(r) ==
  /\ runs[r].phase = "votes"
  /\ runs[r].queue # << >>
  /\ LET item == Head(runs[r].queue)
         vote == item.doc
         upd == updateConfirmations(vote, MockBlockHeight, MockCurrentHeight, now)
         mem == IF isConfirmed(upd) THEN markCounted(upd) ELSE upd
     IN IF ~hasTxHash(vote) \/ ~(now - vote.createdAt > VoteConfirmAge)
          THEN /\ runs' = [runs EXCEPT ![r].queue = Tail(runs[r].queue)]
               /\ UNCHANGED votes
          ELSE \E outcome \in SaveOutcomes, catchSaved \in BOOLEAN :
                 /\ (runs[r].stats \/ outcome # "saved") => catchSaved
                 /\ votes' =
                      IF outcome = "thrown" THEN votes
                      ELSE IF outcome = "savedInCatch"
                        THEN [votes EXCEPT ![item.id] =
                                SaveVote(votes[item.id], vote, addSyncError(mem))]
                      ELSE IF runs[r].stats
                        THEN [votes EXCEPT ![item.id] =
                                SaveVote(votes[item.id], vote, mem)]
                      ELSE LET first == SaveVote(votes[item.id], vote, mem)
                           IN [votes EXCEPT ![item.id] =
                                 IF catchSaved
                                   THEN SaveVote(first, mem, addSyncError(mem))
                                   ELSE first]
                 /\ runs' = [runs EXCEPT ![r].queue =
                               IF outcome = "thrown" \/ ~runs[r].stats
                                 THEN << >> ELSE Tail(runs[r].queue)]
  /\ UNCHANGED <<now, drafts, syncs, polls, reqs, sweep, cron>>

(* a query that leaves out isActive: true *)
isExpired_AnyEnded(poll, t) == poll.exists /\ poll.endTime < t

isExpired(poll, t) == poll.exists /\ poll.isActive /\ poll.endTime < t

(* a visit that counts itself in lastSyncedAt and leaves the poll active *)
expire_CountVisits(poll, t) == [poll EXCEPT !.lastSyncedAt = poll.lastSyncedAt + 1]

(* poll.isActive = false; poll.lastSyncedAt = now *)
expire(poll, t) == [poll EXCEPT !.isActive = FALSE, !.lastSyncedAt = t]

RECURSIVE SelectPolls(_, _, _)
SelectPolls(P, i, t) ==
  IF i > Len(ChainIdSeq) THEN << >>
  ELSE IF isExpired(P[ChainIdSeq[i]], t)
         THEN <<[id |-> ChainIdSeq[i], doc |-> P[ChainIdSeq[i]]]>> \o SelectPolls(P, i + 1, t)
         ELSE SelectPolls(P, i + 1, t)

(* BlockchainPoll.find({isActive: true, endTime: {$lt: now}}) *)
LoadExpired(P, t) == SelectPolls(P, 1, t)

(* the timer's sweep ends; runFullSync goes on to updatePollStatuses *)
VotesEnd(r) ==
  /\ runs[r].phase = "votes"
  /\ runs[r].queue = << >>
  /\ runs' = [runs EXCEPT ![r] =
                IF runs[r].kind = "votes" THEN IdleRun
                ELSE [runs[r] EXCEPT !.phase = "statuses", !.at = now,
                                     !.queue = LoadExpired(polls, now)]]
  /\ UNCHANGED <<now, drafts, syncs, polls, votes, reqs, sweep, cron>>

(* the for loop of updatePollStatuses when every save succeeds *)
RECURSIVE ApplyStatuses(_, _, _)
ApplyStatuses(P, queue, t) ==
  IF queue = << >> THEN P
  ELSE LET item == Head(queue)
       IN ApplyStatuses([P EXCEPT ![item.id] =
                           SavePoll(P[item.id], item.doc, expire(item.doc, t))],
                        Tail(queue), t)

(* one whole updatePollStatuses at time t on the snapshots P *)
SweepExpired(P, t) == ApplyStatuses(P, LoadExpired(P, t), t)

(* a direct call of updatePollStatuses(stats) *)
UpdatePollStatuses(r) ==
  /\ FreeRun(r)
  /\ runs' = [runs EXCEPT ![r] =
                [kind |-> "statuses", phase |-> "statuses", by |-> "call",
                 stats |-> TRUE, at |-> now, queue |-> LoadExpired(polls, now)]]
  /\ UNCHANGED <<now, drafts, syncs, polls, votes, reqs, sweep, cron>>

(* updatePollStatuses: one iteration of the for loop; a save that throws   *)
(* leaves the loop for the catch around it                                 *)
StatusesStep(r) ==
  /\ runs[r].phase = "statuses"
  /\ runs[r].queue # << >>
  /\ LET item == Head(runs[r].queue)
     IN \E saved \in BOOLEAN :
          IF saved
            THEN /\ polls' = [polls EXCEPT ![item.id] =
                                SavePoll(polls[item.id], item.doc,
                                         expire(item.doc, runs[r].at))]
                 /\ runs' = [runs EXCEPT ![r].queue = Tail(runs[r].queue)]
            ELSE /\ runs' = [runs EXCEPT ![r].queue = << >>]
                 /\ UNCHANGED polls
  /\ UNCHANGED <<now, drafts, syncs, votes, reqs, sweep, cron>>

(* runFullSync's finally block: isRunning = false *)
StatusesEnd(r) ==
  /\ runs[r].phase = "statuses"
  /\ runs[r].queue = << >>
  /\ runs' = [runs EXCEPT ![r] = IdleRun]
  /\ sweep' = IF runs[r].kind = "full" THEN [sweep EXCEPT !.isRunning = FALSE] ELSE sweep
  /\ UNCHANGED <<now, drafts, syncs, polls, votes, reqs, cron>>

-----------------------------------------------------------------------------
(* The life of a vote: the BlockchainVote methods, confirmVote and the      *)
(* confirmation sweep, started by its timer or inside runFullSync, on       *)
(* votes that createVoteTransaction stored.  The chain lists no poll.       *)

(* Request bodies of confirm-vote; a body that is rejected unread is drawn once *)
ConfirmVoteInputs == {<<0, NONE>>} \cup ((1..MaxVotes) \X TxHashes)

SeedVotes ==
  {<<NewVote(7, "V1", 0, 0)>>, <<NewVote(7, "V1", 0, 0), NewVote(7, "V2", 0, 0)>>}

LifeInit ==
  /\ now = 0
  /\ drafts = [d \in DraftIds |-> NoDraft]
  /\ syncs = << >>
  /\ polls = [c \in ChainIds |-> NoPoll]
  /\ votes \in SeedVotes
  /\ reqs = [h \in Handlers |-> IdleReq]
  /\ sweep = IdleSweep
  /\ cron = StartedCron
  /\ runs = [r \in RunIds |-> IdleRun]

LifeNext ==
  \/ \E i \in 1..MaxVotes, hs \in HeightPairs : UpdateConfirmations(i, hs)
  \/ \E i \in 1..MaxVotes : MarkCounted(i)
  \/ \E i \in 1..MaxVotes : MarkRewarded(i)
  \/ \E i \in 1..MaxVotes : MarkFailed(i)
  \/ \E in \in ConfirmVoteInputs : ConfirmVote(1, in[1], in[2])
  \/ \E in \in ConfirmVoteInputs : SimpleConfirmVote(1, in[1], in[2])
  \/ \E task \in Tasks : TimerFires(task, 1)
  \/ SyncBlockchainPolls(1, {}, NULL)
  \/ VotesStep(1)
  \/ VotesEnd(1)
  \/ StatusesEnd(1)
  \/ ClockTick

LifeSpec == LifeInit /\ [][LifeNext]_vars

-----------------------------------------------------------------------------
(* The scheduler: start, stop, the two timers and direct calls of           *)
(* runFullSync, over votes whose transaction hash confirmVote recorded.     *)
(* No PollSync is stored and the chain lists no poll.                      *)

Submitted(voter) == [NewVote(7, voter, 0, 0) EXCEPT !.txHash = "0xabc"]

SeedSubmitted == {<<Submitted("V1")>>, <<Submitted("V1"), Submitted("V2")>>}

SchedInit ==
  /\ now = 0
  /\ drafts = [d \in DraftIds |-> NoDraft]
  /\ syncs = << >>
  /\ polls = [c \in ChainIds |-> NoPoll]
  /\ votes \in SeedSubmitted
  /\ reqs = [h \in Handlers |-> IdleReq]
  /\ sweep = IdleSweep
  /\ cron = IdleCron
  /\ runs = [r \in RunIds |-> IdleRun]

SchedNext ==
  \/ Start
  \/ Stop
  \/ \E task \in Tasks, r \in RunIds : TimerFires(task, r)
  \/ \E r \in RunIds : RunFullSync(r)
  \/ \E r \in RunIds : SyncBlockchainPolls(r, {}, NULL)
  \/ \E r \in RunIds : VotesStep(r)
  \/ \E r \in RunIds : VotesEnd(r)
  \/ \E r \in RunIds : StatusesEnd(r)
  \/ ClockTick

SchedSpec == SchedInit /\ [][SchedNext]_vars

-----------------------------------------------------------------------------
(* The sweeps over stored documents: failed registrations that were never  *)
(* tried, votes with a transaction hash, snapshots that are still active.  *)

FailedSync(d) == [NewPollSync(d, DefaultMaxRegistrationAttempts) EXCEPT !.syncStatus = "failed"]

SeedFailedSyncs == {<<FailedSync(1)>>, <<FailedSync(1), FailedSync(2)>>}

(* a PollSync as registerPollOnBlockchain's findOrCreate leaves it, alone  *)
(* or created before a failed one                                          *)
SeedPendingSyncs ==
  {<<NewPollSync(1, DefaultMaxRegistrationAttempts)>>,
   <<NewPollSync(1, DefaultMaxRegistrationAttempts), FailedSync(2)>>}

SeedEndTimes == {1, 5}

ActivePoll(endTime) ==
  [exists |-> TRUE, isActive |-> TRUE, endTime |-> endTime, lastSyncedAt |-> 0]

SeedPolls ==
  {P \in [ChainIds -> {NoPoll} \cup {ActivePoll(e) : e \in SeedEndTimes}] :
     \E c \in ChainIds : P[c].exists}

(* a vote whose transaction was never reported, before or after one that was *)
SeedUnreported ==
  {<<NewVote(7, "V1", 0, 0), Submitted("V2")>>, <<Submitted("V1"), NewVote(7, "V2", 0, 0)>>}

SweepInit ==
  /\ now = 0
  /\ reqs = [h \in Handlers |-> IdleReq]
  /\ sweep = IdleSweep
  /\ cron = StartedCron
  /\ runs = [r \in RunIds |-> IdleRun]
  /\ \/ /\ syncs \in SeedFailedSyncs \cup SeedPendingSyncs
        /\ drafts \in {[d \in DraftIds |-> NewDraft("pending", NULL)],
                       [d \in DraftIds |-> IF d = 1 THEN NewDraft("pending", NULL) ELSE NoDraft]}
        /\ votes = << >>
        /\ polls = [c \in ChainIds |-> NoPoll]
     \/ /\ syncs = << >>
        /\ drafts = [d \in DraftIds |-> NoDraft]
        /\ votes \in SeedSubmitted \cup SeedUnreported
        /\ polls = [c \in ChainIds |-> NoPoll]
     \/ /\ syncs = << >>
        /\ drafts = [d \in DraftIds |-> NoDraft]
        /\ votes = << >>
        /\ polls \in SeedPolls
     \/ /\ syncs = <<FailedSync(1), FailedSync(2)>>
        /\ drafts = [d \in DraftIds |-> NewDraft("pending", NULL)]
        /\ votes = <<Submitted("V1"), Submitted("V2")>>
        /\ polls = [c \in ChainIds |-> ActivePoll(1)]

(* what tonService.getActivePolls lists and syncBlockchainPolls saves *)
ChainListings == {{}, {7}}

(* one sweep at a time: the overlap of sweeps is SchedSpec's subject *)
SweepNext ==
  \/ \E task \in Tasks : TimerFires(task, 1)
  \/ RunFullSync(1)
  \/ UpdatePollStatuses(1)
  \/ RegistrationsStep(1)
  \/ \E synced \in ChainListings, e \in EndTimes : SyncBlockchainPolls(1, synced, e)
  \/ VotesStep(1)
  \/ VotesEnd(1)
  \/ StatusesStep(1)
  \/ StatusesEnd(1)
  \/ ClockTick

SweepSpec == SweepInit /\ [][SweepNext]_vars

-----------------------------------------------------------------------------
(* incrementAttempt on its own, called on a document in memory: failed     *)
(* documents with any number of attempts made, below a maximum large       *)
(* enough for the delay to reach its cap, at any time of the clock.  The   *)
(* schema's max: 5 on registrationAttempts is checked by save() only, so   *)
(* here syncs holds the documents in memory and nothing is saved.          *)

(* a failed PollSync after some attempts, due again *)
LastAttempt(d, before, maxAttempts) ==
  [NewPollSync(d, maxAttempts) EXCEPT !.syncStatus = "failed",
                                      !.registrationAttempts = before,
                                      !.lastAttemptAt = 0]

SeedAttempted ==
  {<<LastAttempt(1, n, maxAttempts)>> :
     n \in 0..MaxAttemptsTried,
     maxAttempts \in {DefaultMaxRegistrationAttempts, MaxAttemptsTried + 1}}

(* pollSync.incrementAttempt() *)
IncrementAttempt(i) ==
  /\ i \in SyncIds
  /\ syncs[i].registrationAttempts < MaxAttemptsTried + 1
  /\ syncs' = [syncs EXCEPT ![i] = incrementAttempt(syncs[i], now)]
  /\ UNCHANGED <<now, drafts, polls, votes, reqs, sweep, cron, runs>>

BackoffInit ==
  /\ now = 0
  /\ drafts = [d \in DraftIds |-> NewDraft("pending", NULL)]
  /\ syncs \in SeedAttempted
  /\ polls = [c \in ChainIds |-> NoPoll]
  /\ votes = << >>
  /\ reqs = [h \in Handlers |-> IdleReq]
  /\ sweep = IdleSweep
  /\ cron = IdleCron
  /\ runs = [r \in RunIds |-> IdleRun]

BackoffNext ==
  \/ IncrementAttempt(1)
  \/ ClockTick

BackoffSpec == BackoffInit /\ [][BackoffNext]_vars

-----------------------------------------------------------------------------
(* The retry sweep run for ever: runFullSync is called again and again,    *)
(* every step it can take is eventually taken, the store eventually saves  *)
(* what a step writes, and the clock advances.  The stored documents are   *)
(* one attempt from their end, or would be if the sweep visited them.      *)

SeedRetrySyncs ==
  {<<LastAttempt(1, 2, 3)>>,
   <<LastAttempt(1, 1, 2)>>,
   <<LastAttempt(1, 4, 5)>>,
   <<NewPollSync(1, DefaultMaxRegistrationAttempts)>>,
   <<LastAttempt(1, 2, 3), LastAttempt(2, 1, 2)>>,
   <<LastAttempt(1, 2, 3), LastAttempt(2, 4, 5)>>,
   <<NewPollSync(1, DefaultMaxRegistrationAttempts), LastAttempt(2, 2, 3)>>}

RetryInit ==
  /\ now = 0
  /\ drafts = [d \in DraftIds |-> NewDraft("pending", NULL)]
  /\ syncs \in SeedRetrySyncs
  /\ polls = [c \in ChainIds |-> NoPoll]
  /\ votes = << >>
  /\ reqs = [h \in Handlers |-> IdleReq]
  /\ sweep = IdleSweep
  /\ cron = StartedCron
  /\ runs = [r \in RunIds |-> IdleRun]

RetryNext ==
  \/ RunFullSync(1)
  \/ RegistrationsStep(1)
  \/ SyncBlockchainPolls(1, {}, NULL)
  \/ VotesEnd(1)
  \/ StatusesEnd(1)
  \/ ClockTick

RetrySpec ==
  /\ RetryInit
  /\ [][RetryNext]_vars
  /\ WF_vars(RunFullSync(1))
  /\ WF_vars(RegistrationsStep(1))
  /\ SF_vars(RegistrationsStep(1) /\ syncs' # syncs)
  /\ WF_vars(SyncBlockchainPolls(1, {}, NULL))
  /\ WF_vars(VotesEnd(1))
  /\ WF_vars(StatusesEnd(1))
  /\ WF_vars(ClockTick)

-----------------------------------------------------------------------------
(* The confirmation sweep run for ever on reported votes: both timers keep *)
(* firing, every step a sweep can take is eventually taken, the store      *)
(* eventually saves what a step writes, and the clock advances.            *)

ConfirmInit ==
  /\ now = 0
  /\ drafts = [d \in DraftIds |-> NoDraft]
  /\ syncs = << >>
  /\ polls = [c \in ChainIds |-> NoPoll]
  /\ votes \in SeedSubmitted
  /\ reqs = [h \in Handlers |-> IdleReq]
  /\ sweep = IdleSweep
  /\ cron = StartedCron
  /\ runs = [r \in RunIds |-> IdleRun]

ConfirmNext ==
  \/ \E task \in Tasks : TimerFires(task, 1)
  \/ SyncBlockchainPolls(1, {}, NULL)
  \/ VotesStep(1)
  \/ VotesEnd(1)
  \/ StatusesEnd(1)
  \/ ClockTick

ConfirmSpec ==
  /\ ConfirmInit
  /\ [][ConfirmNext]_vars
  /\ \A task \in Tasks : SF_vars(TimerFires(task, 1))
  /\ WF_vars(SyncBlockchainPolls(1, {}, NULL))
  /\ WF_vars(VotesStep(1))
  /\ SF_vars(VotesStep(1) /\ votes' # votes)
  /\ WF_vars(VotesEnd(1))
  /\ WF_vars(StatusesEnd(1))
  /\ WF_vars(ClockTick)

-----------------------------------------------------------------------------
(* Properties of the registration flow, under RegSpec *)

(* C1: in every reachable state every RegistrationAttempt has              *)
(* registrationAttempts <= its maxRegistrationAttempts.                    *)
C1_AttemptsWithinMax ==
  \A i \in SyncIds : syncs[i].registrationAttempts <= syncs[i].maxRegistrationAttempts

(* a sweep has counted an attempt up to its maximum *)
C1_Witness ==
  \E i \in SyncIds :
    /\ syncs[i].registrationAttempts = syncs[i].maxRegistrationAttempts
    /\ syncs[i].lastAttemptAt # NULL
    /\ syncs[i].registrationTxPayload = NONE

(* C2: in every reachable state an attempt whose counter equals its        *)
(* maximum has syncStatus failed and nextRetryAt null.                     *)
C2_ExhaustedStaysFailed ==
  \A i \in SyncIds :
    syncs[i].registrationAttempts = syncs[i].maxRegistrationAttempts
      => (syncs[i].syncStatus = "failed" /\ syncs[i].nextRetryAt = NULL)

InProgress(d) ==
  \E i \in SyncIds :
    syncs[i].aiPollId = d /\ syncs[i].syncStatus \notin {"failed", "cancelled"}

RegisterBegins(h) ==
  /\ reqs[h].pc \in {"idle", "done"}
  /\ reqs'[h].kind = "register"
  /\ reqs'[h] # reqs[h]

(* C5: requestRegistration for an existing Draft is rejected with          *)
(* AlreadyInProgress, changing no record, exactly when an attempt that     *)
(* references the Draft has a status other than failed or cancelled;       *)
(* otherwise it proceeds and the attempt ends registering.                 *)
C5_RejectedIffInProgress ==
  [][\A h \in Handlers :
       /\ (RegisterBegins(h) /\ reqs'[h].result = "AlreadyInProgress")
            => ((\E d \in DraftIds : InProgress(d)) /\ syncs' = syncs /\ drafts' = drafts)
       /\ (RegisterBegins(h) /\ reqs'[h].pc = "payload")
            => ~InProgress(reqs'[h].draft)
       /\ (reqs[h].kind = "register" /\ reqs[h].pc = "payload" /\ reqs'[h].result = "ok")
            => \E i \in 1..Len(syncs') :
                 syncs'[i].aiPollId = reqs[h].draft /\ syncs'[i].syncStatus = "registering"
    ]_vars

(* C6: at most one RegistrationAttempt in status registering references a  *)
(* Draft at any time, whatever the interleaving of requestRegistration.    *)
C6_OneRegisteringPerDraft ==
  \A i, j \in SyncIds :
    (i # j /\ syncs[i].aiPollId = syncs[j].aiPollId)
      => ~(syncs[i].syncStatus = "registering" /\ syncs[j].syncStatus = "registering")

(* C7: requestRegistration with no earlier attempt creates an attempt in   *)
(* status registering with the payload and the contract address;           *)
(* confirmRegistration(attemptId, txHash, chainPollId) leaves the attempt  *)
(* registered with that chainPollId and txHash and nextRetryAt null, and   *)
(* the owning Draft registered with the same chainPollId.                  *)
C7_RegisterThenConfirm ==
  [][\A h \in Handlers :
       /\ (reqs[h].kind = "register" /\ reqs[h].pc = "payload" /\ reqs[h].syncId = 0
           /\ reqs'[h].result = "ok")
            => /\ Len(syncs') = Len(syncs) + 1
               /\ syncs'[Len(syncs')].aiPollId = reqs[h].draft
               /\ syncs'[Len(syncs')].syncStatus = "registering"
               /\ syncs'[Len(syncs')].registrationTxPayload = "payload"
               /\ syncs'[Len(syncs')].contractAddress = "contract"
       /\ (reqs[h].pc \in {"idle", "done"} /\ reqs'[h].kind = "confirm"
           /\ reqs'[h].pc = "draftUpdate")
            => /\ syncs'[reqs'[h].syncId].syncStatus = "registered"
               /\ syncs'[reqs'[h].syncId].blockchainPollId = reqs'[h].chainId
               /\ syncs'[reqs'[h].syncId].registrationTxHash = reqs'[h].txHash
               /\ reqs'[h].txHash \in TxHashes
               /\ syncs'[reqs'[h].syncId].nextRetryAt = NULL
       /\ (reqs[h].kind = "confirm" /\ reqs[h].pc = "draftUpdate" /\ reqs'[h].result = "ok"
           /\ reqs[h].chainId # NULL /\ drafts[reqs[h].draft].exists)
            => /\ drafts'[reqs[h].draft].status = "registered"
               /\ drafts'[reqs[h].draft].blockchainPollId = reqs[h].chainId
               /\ reqs[h].draft = syncs[reqs[h].syncId].aiPollId
               /\ syncs' = syncs
    ]_vars

(* an attempt made by requestRegistration and confirmed, with its Draft *)
C7_Witness ==
  \E i \in SyncIds, h \in Handlers :
    /\ reqs[h].kind = "confirm" /\ reqs[h].result = "ok"
    /\ syncs[i].syncStatus = "registered"
    /\ syncs[i].registrationTxPayload = "payload"
    /\ syncs[i].registrationTxHash \in TxHashes
    /\ syncs[i].blockchainPollId \in ChainIds
    /\ drafts[syncs[i].aiPollId].status = "registered"
    /\ drafts[syncs[i].aiPollId].blockchainPollId = syncs[i].blockchainPollId

(* C8: a blockchainPollId of a RegistrationAttempt, once set, is never     *)
(* cleared or changed by a later operation.                                *)
C8_ChainIdStable ==
  [][\A i \in SyncIds :
       syncs[i].blockchainPollId # NULL
         => syncs'[i].blockchainPollId = syncs[i].blockchainPollId]_vars

-----------------------------------------------------------------------------
(* Properties of the Drafts, under DraftSpec *)

ConfirmCompletes(d) ==
  \E h \in Handlers :
    /\ reqs[h].kind = "confirm" /\ reqs[h].pc = "draftUpdate"
    /\ reqs'[h].pc = "done"
    /\ syncs[reqs[h].syncId].aiPollId = d

GivenChainId(d) ==
  /\ drafts'[d].blockchainPollId # NULL
  /\ drafts'[d].blockchainPollId # drafts[d].blockchainPollId

StoresMetadata(d) ==
  /\ ~polls[drafts'[d].blockchainPollId].exists
  /\ polls'[drafts'[d].blockchainPollId].exists

C10_DraftStatusForward ==
  [][\A d \in DraftIds :
       (drafts[d].exists /\ drafts'[d].status # drafts[d].status)
         => (drafts[d].status = "pending"
             /\ drafts'[d].status \in {"registered", "failed"})]_vars

-----------------------------------------------------------------------------
(* Properties of the votes, under VoteSpec *)

SameKey(a, b) ==
  a.blockchainPollId = b.blockchainPollId /\ a.voterAddress = b.voterAddress

(* C3: the store never holds two VoteAttempts of the same                  *)
(* (blockchainPollId, voterAddress) that are both pending, confirmed,      *)
(* counted or rewarded.                                                    *)
C3_OneLiveVotePerKey ==
  \A i, j \in VoteIdx :
    (i # j /\ SameKey(votes[i], votes[j]))
      => ~(votes[i].status \in LiveVoteStatuses /\ votes[j].status \in LiveVoteStatuses)

(* a request passed the hasUserVoted check and lost the insert to a live   *)
(* vote of the same key                                                    *)
C3_Witness ==
  /\ \E h \in Handlers : reqs[h].kind = "vote" /\ reqs[h].result = "DuplicateKeyError"
  /\ votes # << >>
  /\ \A i \in VoteIdx : votes[i].status \in LiveVoteStatuses

VoteBegins(h) ==
  /\ reqs[h].pc \in {"idle", "done"}
  /\ reqs'[h].kind = "vote"
  /\ reqs'[h] # reqs[h]

(* C4: submitVote is rejected as a duplicate, creating no record, exactly  *)
(* when a live VoteAttempt of (poll, voter) exists; when the voter's       *)
(* earlier attempts on the poll are failed or invalid it creates a new     *)
(* pending VoteAttempt (unless the vote intent cannot be built).           *)
C4_RevoteAfterFailure ==
  [][\A h \in Handlers :
       /\ (VoteBegins(h) /\ reqs'[h].result = "DuplicateVote")
            => ((\E i \in VoteIdx : votes[i].status \in LiveVoteStatuses) /\ votes' = votes)
       /\ (VoteBegins(h) /\ reqs'[h].pc = "intent")
            => ~hasUserVoted(reqs'[h].voter, reqs'[h].poll)
       /\ (reqs[h].kind = "vote" /\ reqs[h].pc = "intent" /\ reqs'[h].pc = "done"
           /\ ~hasUserVoted(reqs[h].voter, reqs[h].poll))
            => \/ reqs'[h].result = "Error"
               \/ /\ reqs'[h].result = "ok"
                  /\ votes' = Append(votes, NewVote(reqs[h].poll, reqs[h].voter,
                                                    reqs[h].option, now))
    ]_vars

-----------------------------------------------------------------------------
(* Properties of a vote's life, under LifeSpec *)

Rank(status) ==
  CASE status = "pending" -> 0
    [] status = "confirmed" -> 1
    [] status = "counted" -> 2
    [] status = "rewarded" -> 3
    [] OTHER -> 4

(* C11: a VoteAttempt's status changes only forward along pending,         *)
(* confirmed, counted, rewarded, or from pending to failed or invalid.     *)
C11_VoteStatusForward ==
  [][\A i \in VoteIdx :
       votes'[i].status # votes[i].status
         => \/ /\ votes[i].status \in LiveVoteStatuses
               /\ votes'[i].status \in LiveVoteStatuses
               /\ Rank(votes'[i].status) > Rank(votes[i].status)
            \/ /\ votes[i].status = "pending"
               /\ votes'[i].status \in {"failed", "invalid"}]_vars

(* C12: when updateConfirmations brings the confirmations of a pending     *)
(* VoteAttempt to requiredConfirmations or above, the attempt becomes      *)
(* confirmed and confirmedAt is stamped.                                   *)
C12_ThresholdConfirms ==
  [][\A i \in VoteIdx :
       (/\ votes[i].status = "pending"
        /\ votes'[i].confirmations # votes[i].confirmations
        /\ votes'[i].confirmations >= votes'[i].requiredConfirmations)
         => (votes'[i].status = "confirmed" /\ votes'[i].confirmedAt # NULL)]_vars

-----------------------------------------------------------------------------
(* Properties of the scheduler, under SchedSpec *)

InFlight(r) == runs[r].kind # "none"

(* C14: at most one runFullSync is executing at any time, and isRunning is *)
(* set exactly while it executes.                                          *)
C14_OneFullSync ==
  /\ \A r, q \in RunIds : (runs[r].kind = "full" /\ runs[q].kind = "full") => r = q
  /\ sweep.isRunning <=> (\E r \in RunIds : runs[r].kind = "full")

(* a cycle is in progress, with a sync timer live and a slot for one more  *)
(* execution, so that only the guard keeps a second cycle out              *)
C14_Witness ==
  /\ \E r \in RunIds : runs[r].kind = "full" /\ runs[r].phase = "votes"
  /\ \E r \in RunIds : FreeRun(r)
  /\ \E task \in cron.live : task.kind = "sync"

(* C15: a vote-confirmation sweep started by the timer never overlaps a    *)
(* runFullSync or another vote-confirmation sweep.                         *)
C15_VoteSweepExclusive ==
  \A r, q \in RunIds :
    (r # q /\ runs[r].kind = "votes" /\ runs[r].by = "timer") => ~InFlight(q)

StartedByTimer(r) ==
  /\ ~InFlight(r)
  /\ runs'[r].kind # "none"
  /\ runs'[r].by = "timer"

(* C17: after stop() no timer starts a sweep until start() is called       *)
(* again, and stop() leaves the sweeps in flight alone.                    *)
C17_NoSweepAfterStop ==
  [][/\ \A r \in RunIds : StartedByTimer(r) => cron.held # {}
     /\ (cron.held # {} /\ cron'.held = {}) => runs' = runs]_vars

(* C16: in each sweep, a failure while one record is processed (a save     *)
(* that throws included) never keeps the remaining records of the sweep    *)
(* from being processed: a step of a sweep that still has records to visit *)
(* stays in its loop and goes on to the next record.                       *)
C16_SweepNeverAborts ==
  [][\A r \in RunIds :
       (runs[r].queue # << >> /\ runs'[r] # runs[r]) =>
          /\ runs'[r].phase = runs[r].phase
          /\ runs'[r].queue = Tail(runs[r].queue)]_vars

QueueIds(q) == {q[k].id : k \in 1..Len(q)}

(* C18: updatePollStatuses loads exactly the snapshots that are active and *)
(* whose endTime is earlier than the sweep time, and each of its saves     *)
(* sets isActive to false and lastSyncedAt to the sweep time on the        *)
(* snapshot being visited; every other snapshot and every other field is   *)
(* left as it was.                                                         *)
C18_SweepExpiredFrame ==
  [][\A r \in RunIds :
       /\ (runs[r].phase # "statuses" /\ runs'[r].phase = "statuses") =>
            /\ QueueIds(runs'[r].queue) =
                 {c \in ChainIds : polls[c].exists /\ polls[c].isActive
                                     /\ polls[c].endTime < runs'[r].at}
            /\ runs'[r].at = now
            /\ polls' = polls
       /\ (runs[r].phase = "statuses" /\ polls' # polls) =>
            /\ runs[r].queue # << >>
            /\ LET c == Head(runs[r].queue).id
               IN /\ polls[c].isActive /\ polls[c].endTime < runs[r].at
                  /\ polls' = [polls EXCEPT ![c] = [exists |-> TRUE,
                                                    isActive |-> FALSE,
                                                    endTime |-> polls[c].endTime,
                                                    lastSyncedAt |-> runs[r].at]]]_vars

(* a finished updatePollStatuses flipped one snapshot and left alone one   *)
(* that had not ended                                                      *)
C18_Witness ==
  /\ runs[1].kind = "statuses" /\ runs[1].phase = "statuses" /\ runs[1].queue = << >>
  /\ \E c, d \in ChainIds :
       /\ c # d
       /\ polls[c].exists /\ ~polls[c].isActive
       /\ polls[c].endTime < runs[1].at /\ polls[c].lastSyncedAt = runs[1].at
       /\ polls[d] = ActivePoll(5)

C20_BackoffMonotone ==
  [][\A i \in (DOMAIN syncs) \cap (DOMAIN syncs') :
       (syncs[i].nextRetryAt # NULL /\ syncs'[i].nextRetryAt # NULL) =>
          syncs'[i].nextRetryAt >= syncs[i].nextRetryAt]_vars

(* a PollSync after its second sweep, with attempts left and a retry time *)
C20_Witness ==
  \E i \in DOMAIN syncs :
    /\ syncs[i].registrationAttempts = 2
    /\ syncs[i].registrationAttempts < syncs[i].maxRegistrationAttempts
    /\ syncs[i].syncStatus = "failed"
    /\ syncs[i].nextRetryAt # NULL
    /\ syncs[i].nextRetryAt = syncs[i].lastAttemptAt + currentRetryDelay(syncs[i])
    /\ syncs[i].lastAttemptAt >= BaseRetryDelay * BackoffMultiplier

-----------------------------------------------------------------------------
(* Properties of the vote handlers, under VoteSpec *)

(* C21: a vote whose option index is outside [0, optionCount) is rejected  *)
(* and no BlockchainVote is stored for it, by either controller: every     *)
(* stored vote selects an option of its poll.                              *)
C21_OptionInRange ==
  \A i \in VoteIdx :
    votes[i].selectedOptionId >= 0 /\ votes[i].selectedOptionId < ChainOptionCount

-----------------------------------------------------------------------------
(* Properties of the sweeps, under SweepSpec *)

(* C22: a BlockchainVote without a txHash is never modified by a           *)
(* confirmation sweep, whether started by the timer or inside runFullSync:  *)
(* no step of a sweep changes any field of such a vote.                    *)
C22_UnreportedVoteUntouched ==
  [][\A i \in VoteIdx : votes[i].txHash = NONE => votes'[i] = votes[i]]_vars

(* two minutes on, a sweep has visited the reported vote and written its   *)
(* confirmations while the other vote is as createVoteTransaction left it  *)
C22_Witness ==
  \E i, j \in VoteIdx :
    /\ votes[i].txHash = NONE
    /\ votes[i] = NewVote(7, votes[i].voterAddress, 0, 0)
    /\ votes[j].txHash # NONE
    /\ votes[j].confirmations = MockCurrentHeight - MockBlockHeight + 1
    /\ now > VoteConfirmAge

(* C23: a pass of processPendingRegistrations increments the attempt       *)
(* counter and lastAttemptAt of exactly the PollSync documents that are    *)
(* pending or failed, due and below their maximum, pending ones as well as *)
(* failed ones, and modifies no other document.  Stated per visit: a       *)
(* visited document that is due and whose draft exists gets its counter    *)
(* and timestamp advanced, unless the store fails and the pass ends; and   *)
(* a document that is changed was due.                                     *)
C23_SweepProcessesDue ==
  [][\A r \in RunIds :
       (runs[r].phase = "registrations" /\ runs[r].queue # << >> /\ runs'[r] # runs[r]) =>
         LET item == Head(runs[r].queue)
             doc == syncs[item.id]
             due == /\ doc.syncStatus \in {"pending", "failed"}
                    /\ (doc.nextRetryAt = NULL \/ doc.nextRetryAt <= now)
                    /\ doc.registrationAttempts < doc.maxRegistrationAttempts
         IN /\ (due /\ item.aiPoll) =>
                 \/ /\ syncs'[item.id].registrationAttempts = doc.registrationAttempts + 1
                    /\ syncs'[item.id].lastAttemptAt = now
                 \/ /\ syncs' = syncs
                    /\ runs'[r].queue = << >>
            /\ syncs' # syncs => due
            /\ \A i \in DOMAIN syncs : i # item.id => syncs'[i] = syncs[i]]_vars

-----------------------------------------------------------------------------
(* Properties of the retry sweep run for ever, under RetrySpec *)

(* C24: with sweeps scheduled fairly and time advancing, every PollSync    *)
(* that is pending or failed with attempts below its own                   *)
(* maxRegistrationAttempts eventually becomes registered or synced, or     *)
(* failed with attempts at the maximum and no retry time.                  *)
C24_EveryAttemptSettles ==
  \A i \in 1..MaxSyncs :
    (/\ i \in DOMAIN syncs
     /\ syncs[i].syncStatus \in {"pending", "failed"}
     /\ syncs[i].registrationAttempts < syncs[i].maxRegistrationAttempts)
    ~> (/\ i \in DOMAIN syncs
        /\ \/ syncs[i].syncStatus \in {"registered", "synced"}
           \/ /\ syncs[i].syncStatus = "failed"
              /\ syncs[i].registrationAttempts = syncs[i].maxRegistrationAttempts
              /\ syncs[i].nextRetryAt = NULL)

-----------------------------------------------------------------------------
(* Properties of incrementAttempt, under BackoffSpec.  Times are minutes:  *)
(* the base delay of 60 s is 1, the cap of 1 h is 60.                      *)

(* C25: when incrementAttempt raises the counter to a value n below the    *)
(* maximum, the status is failed and nextRetryAt is the time of the        *)
(* attempt plus min(maxRetryDelay, baseRetryDelay * backoffMultiplier^n);  *)
(* the delay never exceeds maxRetryDelay.                                  *)
C25_BackoffDelay ==
  [][\A i \in DOMAIN syncs :
       (/\ syncs'[i].registrationAttempts = syncs[i].registrationAttempts + 1
        /\ syncs'[i].registrationAttempts < syncs'[i].maxRegistrationAttempts) =>
          LET n == syncs'[i].registrationAttempts
              power == BaseRetryDelay * Pow(BackoffMultiplier, n)
              delay == IF power > MaxRetryDelay THEN MaxRetryDelay ELSE power
          IN /\ syncs'[i].syncStatus = "failed"
             /\ syncs'[i].lastAttemptAt = now
             /\ syncs'[i].nextRetryAt = now + delay
             /\ syncs'[i].nextRetryAt - now <= MaxRetryDelay]_vars

(* an attempt whose delay was cut to the cap, and after time had passed *)
C25_Witness ==
  \E i \in DOMAIN syncs :
    /\ syncs[i].registrationAttempts < syncs[i].maxRegistrationAttempts
    /\ BaseRetryDelay * Pow(BackoffMultiplier, syncs[i].registrationAttempts) > MaxRetryDelay
    /\ syncs[i].lastAttemptAt > 0
    /\ syncs[i].nextRetryAt = syncs[i].lastAttemptAt + MaxRetryDelay

-----------------------------------------------------------------------------
(* Properties of the confirmation sweep run for ever, under ConfirmSpec *)

(* C26: with confirmation sweeps scheduled fairly, no BlockchainVote with  *)
(* a txHash stays pending for ever once its confirmations have reached     *)
(* requiredConfirmations: it eventually leaves pending.                    *)
C26_ConfirmedDepthLeavesPending ==
  \A i \in 1..MaxVotes :
    (/\ i \in VoteIdx
     /\ votes[i].status = "pending"
     /\ votes[i].txHash # NONE
     /\ votes[i].confirmations >= votes[i].requiredConfirmations)
    ~> (i \in VoteIdx /\ votes[i].status # "pending")

-----------------------------------------------------------------------------
(* Properties of confirmVote, under LifeSpec *)

ConfirmVoteBegins(h) ==
  /\ reqs[h].pc \in {"idle", "done"}
  /\ reqs'[h].kind \in {"confirmVote", "simpleConfirmVote"}
  /\ reqs'[h] # reqs[h]

(* C27: confirmVote on a known voteId stores the txHash and leaves the     *)
(* vote's status as it was, a value of the schema's enum, in both          *)
(* controllers; on an unknown voteId it answers not-found and changes no   *)
(* vote.  A request that is not turned down for a missing field or an      *)
(* unknown voteId, and does not meet a failing store, is answered with     *)
(* success and has written the txHash of one vote and nothing else.        *)
C27_ConfirmVoteRecords ==
  [][\A h \in Handlers :
       ConfirmVoteBegins(h) =>
         /\ reqs'[h].result \in {"BadRequest", "NotFound", "Error"} => votes' = votes
         /\ reqs'[h].result \notin {"BadRequest", "NotFound", "Error"} =>
              /\ reqs'[h].result = "ok"
              /\ \E i \in VoteIdx, txHash \in TxHashes :
                   votes' = [votes EXCEPT ![i].txHash = txHash]
              /\ \A i \in VoteIdx : votes'[i].status \in VoteStatuses]_vars

-----------------------------------------------------------------------------
(* Further properties of the registration flow, under RegSpec *)

(* C28: in every state between operations, also after the store failed     *)
(* between the two writes of confirmPollRegistration, a PollSync with      *)
(* syncStatus registered has a draft whose status is registered and whose  *)
(* blockchainPollId is the PollSync's.                                     *)
C28_RegisteredSyncHasRegisteredDraft ==
  (\A h \in Handlers : reqs[h].pc \in {"idle", "done"}) =>
    \A i \in SyncIds :
      syncs[i].syncStatus = "registered" =>
        /\ drafts[syncs[i].aiPollId].exists
        /\ drafts[syncs[i].aiPollId].status = "registered"
        /\ drafts[syncs[i].aiPollId].blockchainPollId = syncs[i].blockchainPollId

-----------------------------------------------------------------------------
(* Further properties of the sweeps, under SweepSpec *)

(* C29: a confirmation sweep started by its own timer, which calls         *)
(* syncVoteConfirmations without a stats object, processes every eligible  *)
(* vote of its pass: a step of such a sweep that has written the vote it   *)
(* visits goes on to the next vote of the pass.                            *)
C29_TimerSweepVisitsAll ==
  [][\A r \in RunIds :
       (/\ runs[r].kind = "votes" /\ runs[r].by = "timer"
        /\ runs[r].queue # << >>
        /\ votes' # votes) =>
          runs'[r].queue = Tail(runs[r].queue)]_vars

(* C30: once a cached snapshot whose endTime has passed has been set to    *)
(* isActive = false, no later sync sets isActive back to true, whatever    *)
(* the chain reports.                                                      *)
C30_ExpiredStaysInactive ==
  [][\A c \in ChainIds :
       (polls[c].exists /\ ~polls[c].isActive /\ polls[c].endTime < now) =>
          ~polls'[c].isActive]_vars

====
